---- MODULE Spec2Model ----
(***************************************************************************)
(* Project management page (src/pages/projects/index.tsx) and the Prisma   *)
(* schema behind it (prisma/schema.prisma).                                *)
(*                                                                         *)
(*   Spec        the client page ProjectsPage: its React state, the modal  *)
(*               openers and closers, and the three asynchronous handlers  *)
(*               onCreate / onUpdate / onDelete, each split at its await.  *)
(*   SpecDb      the database under the schema's referential actions.      *)
(*   SpecLoader  the page's data loader getServerSideProps behind withAuth.*)
(***************************************************************************)
EXTENDS Naturals, Sequences, FiniteSets, TLC

VARIABLES
    initialProjects,  \* prop of ProjectsPage: the loader's projects
    users,            \* prop of ProjectsPage: the loader's user list
    projects,         \* useState<ProjectItem[]>(initialProjects)
    modal,            \* useState<'create'|'edit'|'delete'|null>(null)
    selected,         \* useState<ProjectItem|null>(null): <<>> or <<p>>
    form,             \* useState<ProjectFormData>
    calls,            \* the running invocations of onCreate/onUpdate/onDelete, each with
                      \* its closure and its position
    issued,           \* how many invocations there have been
    toasts,           \* the last toast shown: <<>> or <<t>>
    nextId,           \* how many Project ids the server has generated, plus one
    db,               \* the database: one set of rows per model of the schema
    dbres,            \* outcome of the last database operation
    ssr               \* outcome of the last page request (getServerSideProps)

vars == <<initialProjects, users, projects, modal, selected, form, calls, issued, toasts,
          nextId, db, dbres, ssr>>
pageVars == <<initialProjects, users, projects, modal, selected, form, calls, issued, toasts,
              nextId>>
serverVars == <<db, dbres, ssr>>

----------------------------------------------------------------------------
(* Bounds *)

\* invocations of onCreate/onUpdate/onDelete in one run of the page
MaxCalls == 2

----------------------------------------------------------------------------
(* Values *)

\* JavaScript null, for the string-or-null fields and for modal
Null == "null"
\* the placeholder the page shows for "nobody assigned" (the em dash, U+2014)
Dash == "-"

Roles == {"Administrator", "Project_Manager", "Colaborator"}

\* a Date: getFullYear(), getMonth() (0-based), getDate()
Date1 == [y |-> 2024, m |-> 0, d |-> 5]
Date2 == [y |-> 2025, m |-> 11, d |-> 31]

\* String(n).padStart(2, '0')
PadStart2(s) == IF Len(s) < 2 THEN "0" \o s ELSE s

\* `${dd}/${mm}/${yyyy}` of a Date
formatDate(d) ==
    PadStart2(ToString(d.d)) \o "/" \o PadStart2(ToString(d.m + 1)) \o "/" \o ToString(d.y)

\* rows of User: the two the database holds when the page is loaded, and one
\* created afterwards (the page's users prop never learns of it)
UserAna   == [id |-> "u1", name |-> "Ana",  email |-> "ana@x",  role |-> "Administrator"]
UserLuis  == [id |-> "u2", name |-> "Luis", email |-> "luis@x", role |-> "Colaborator"]
UserLate  == [id |-> "u3", name |-> "Eva",  email |-> "eva@x",  role |-> "Project_Manager"]
LoadedUsers == {UserAna, UserLuis}

\* x?.f ?? dflt for an optional x held as <<>> or <<v>>
OrElse(opt, f, dflt) == IF opt = <<>> THEN dflt ELSE opt[1][f]

----------------------------------------------------------------------------
(* getServerSideProps: the mapping of the loaded rows *)

\* p.assignedTo of the include: the assigned User row, <<>> when there is none
AssignedTo(p, userRows) ==
    IF p.assignedToId = Null THEN <<>>
    ELSE LET us == {u \in userRows : u.id = p.assignedToId}
         IN  IF us = {} THEN <<>> ELSE <<[id |-> (CHOOSE u \in us : TRUE).id,
                                          name |-> (CHOOSE u \in us : TRUE).name]>>

\* one element of initialProjects
LoadedProjectItem(p, userRows) ==
    [id             |-> p.id,
     name           |-> p.name,
     description    |-> p.description,
     assignedToId   |-> OrElse(AssignedTo(p, userRows), "id", ""),
     assignedToName |-> OrElse(AssignedTo(p, userRows), "name", Dash),
     createdAt      |-> formatDate(p.createdAt)]

\* one element of userList (no profile rows on the page side: avatarUrl is null)
UserPayload(u, profileRows) ==
    [id |-> u.id, email |-> u.email, role |-> u.role, name |-> u.name,
     avatarUrl |-> LET ps == {p \in profileRows : p.userId = u.id}
                   IN  IF ps = {} THEN Null ELSE (CHOOSE p \in ps : TRUE).avatarUrl]

\* the sequences that list every element of a finite set once (findMany has no orderBy)
RECURSIVE Orderings(_)
Orderings(S) ==
    IF S = {} THEN {<<>>}
    ELSE UNION {{<<x>> \o t : t \in Orderings(S \ {x})} : x \in S}

\* the rows of Project the database may hold when the page is loaded: one with
\* no description and nobody assigned, one with both
ProjectRow1 == [id |-> "p1", name |-> "A", description |-> Null, assignedToId |-> Null,
                createdAt |-> Date1]
ProjectRow2 == [id |-> "p2", name |-> "B", description |-> "d", assignedToId |-> "u1",
                createdAt |-> Date2]
ProjectRows == {ProjectRow1, ProjectRow2}

\* what findMany may have returned when the page was loaded: no row, either
\* row, or both
LoadedRowSeqs == {<<>>, <<ProjectRow1>>, <<ProjectRow2>>, <<ProjectRow1, ProjectRow2>>}

\* props.initialProjects for the rows in the order findMany returned them
InitialProjects(rowSeq, userRows) ==
    [i \in 1..Len(rowSeq) |-> LoadedProjectItem(rowSeq[i], userRows)]

\* props.users
UserList(userSeq, profileRows) ==
    [i \in 1..Len(userSeq) |-> UserPayload(userSeq[i], profileRows)]

----------------------------------------------------------------------------
(* ProjectsPage *)

EmptyForm == [name |-> "", description |-> "", assignedToId |-> ""]

\* what the operator can put into the form through ProjectForm's onChange
FormInputs ==
    {[name |-> "C", description |-> "e", assignedToId |-> "u2"]}

\* the n-th id the database generates (@default(uuid())): fresh, never a loaded one
GeneratedId(n) == "n" \o ToString(n)

\* the bodies the server can answer a successful POST /api/projects with
CreatedBodies(id) ==
    {[id |-> id, name |-> "A", description |-> Null, assignedTo |-> <<>>,
      createdAt |-> Date1],
     [id |-> id, name |-> "D", description |-> "d",
      assignedTo |-> <<[id |-> UserLate.id, name |-> UserLate.name]>>, createdAt |-> Date2]}

\* the error bodies { error: <message> } of a non-2xx response
ErrorBodies == {[error |-> "No encontrado"]}

\* the body of a 2xx response to PUT and DELETE, which the page never reads
OkBody == [ok |-> TRUE]

\* resetForm(p) that passes a null description on to the form
resetFormToKeepingNull(p) ==
    /\ form' = [name |-> p.name, description |-> p.description,
                assignedToId |-> p.assignedToId]
    /\ selected' = <<p>>

\* resetForm(p), p a ProjectItem
resetFormTo(p) ==
    /\ form' = [name |-> p.name,
                description |-> IF p.description = Null THEN "" ELSE p.description,
                assignedToId |-> p.assignedToId]
    /\ selected' = <<p>>

\* resetForm()
resetFormEmpty ==
    /\ form' = EmptyForm
    /\ selected' = <<>>

\* "Nuevo proyecto" onClick
OpenCreate ==
    /\ resetFormEmpty
    /\ modal' = "create"
    /\ UNCHANGED <<initialProjects, users, projects, calls, issued, toasts, nextId, serverVars>>

\* Table onEdit(p), p a row of the table
OpenEdit ==
    /\ \E i \in 1..Len(projects) : resetFormTo(projects[i])
    /\ modal' = "edit"
    /\ UNCHANGED <<initialProjects, users, projects, calls, issued, toasts, nextId, serverVars>>

\* Table onDelete(p), p a row of the table
OpenDelete ==
    /\ \E i \in 1..Len(projects) : resetFormTo(projects[i])
    /\ modal' = "delete"
    /\ UNCHANGED <<initialProjects, users, projects, calls, issued, toasts, nextId, serverVars>>

\* onClose that also clears the selection
onCloseClearing ==
    /\ modal # Null
    /\ modal' = Null
    /\ selected' = <<>>
    /\ UNCHANGED <<initialProjects, users, projects, form, calls, issued, toasts, nextId,
                   serverVars>>

\* onClose of the modal that is open
onClose ==
    /\ modal # Null
    /\ modal' = Null
    /\ UNCHANGED <<initialProjects, users, projects, selected, form, calls, issued, toasts,
                   nextId, serverVars>>

\* ProjectForm onChange={setForm}, in the create and the edit modal
onChange ==
    /\ modal \in {"create", "edit"}
    /\ \E f \in FormInputs : form' = f
    /\ UNCHANGED <<initialProjects, users, projects, modal, selected, calls, issued, toasts,
                   nextId, serverVars>>

\* an invocation of a handler, suspended at its fetch: the closure holds the
\* selected and form of the render it was invoked from
Invocation(kind) ==
    [kind |-> kind, selected |-> selected, form |-> form, pc |-> "fetch", res |-> <<>>]

\* onCreate up to its await fetch(...)
onCreateFetch ==
    /\ modal = "create"
    /\ issued < MaxCalls
    /\ issued' = issued + 1
    /\ calls' = Append(calls, Invocation("create"))
    /\ UNCHANGED <<initialProjects, users, projects, modal, selected, form, toasts, nextId,
                   serverVars>>

\* onUpdate up to its await fetch(...)
onUpdateFetch ==
    /\ modal = "edit"
    /\ selected # <<>>
    /\ issued < MaxCalls
    /\ issued' = issued + 1
    /\ calls' = Append(calls, Invocation("update"))
    /\ UNCHANGED <<initialProjects, users, projects, modal, selected, form, toasts, nextId,
                   serverVars>>

\* onDelete that removes the record before the server has answered
onDeleteFetchOptimistic ==
    /\ modal = "delete"
    /\ selected # <<>>
    /\ issued < MaxCalls
    /\ issued' = issued + 1
    /\ calls' = Append(calls, Invocation("delete"))
    /\ projects' = SelectSeq(projects, LAMBDA x : x.id # selected[1].id)
    /\ UNCHANGED <<initialProjects, users, modal, selected, form, toasts, nextId,
                   serverVars>>

\* onDelete up to its await fetch(...)
onDeleteFetch ==
    /\ modal = "delete"
    /\ selected # <<>>
    /\ issued < MaxCalls
    /\ issued' = issued + 1
    /\ calls' = Append(calls, Invocation("delete"))
    /\ UNCHANGED <<initialProjects, users, projects, modal, selected, form, toasts, nextId,
                   serverVars>>

\* the server answers the request of invocation i
Respond(i, res) == calls' = [calls EXCEPT ![i].pc = "resolved", ![i].res = <<res>>]

\* seq without its element i
Without(seq, i) == [k \in 1..(Len(seq) - 1) |-> IF k < i THEN seq[k] ELSE seq[k + 1]]

\* invocation i returns
Done(i) == calls' = Without(calls, i)

ServerCreated ==
    /\ \E i \in 1..Len(calls) :
          /\ calls[i].pc = "fetch"
          /\ calls[i].kind = "create"
          /\ \E raw \in CreatedBodies(GeneratedId(nextId)) : Respond(i, [ok |-> TRUE, body |-> raw])
    /\ nextId' = nextId + 1
    /\ UNCHANGED <<initialProjects, users, projects, modal, selected, form, issued, toasts,
                   serverVars>>

ServerOk ==
    /\ \E i \in 1..Len(calls) :
          /\ calls[i].pc = "fetch"
          /\ calls[i].kind \in {"update", "delete"}
          /\ Respond(i, [ok |-> TRUE, body |-> OkBody])
    /\ UNCHANGED <<initialProjects, users, projects, modal, selected, form, issued, toasts,
                   nextId, serverVars>>

ServerError ==
    /\ \E i \in 1..Len(calls) :
          /\ calls[i].pc = "fetch"
          /\ \E err \in ErrorBodies : Respond(i, [ok |-> FALSE, body |-> err])
    /\ UNCHANGED <<initialProjects, users, projects, modal, selected, form, issued, toasts,
                   nextId, serverVars>>

\* fetch rejects (the request does not complete): the handler throws at its await
FetchRejects ==
    /\ \E i \in 1..Len(calls) :
          /\ calls[i].pc = "fetch"
          /\ Done(i)
    /\ UNCHANGED <<initialProjects, users, projects, modal, selected, form, issued, toasts,
                   nextId, serverVars>>

\* if (!res.ok) { const err = await res.json(); return toast({...}) }
NotOk ==
    /\ \E i \in 1..Len(calls) :
          /\ calls[i].pc = "resolved"
          /\ ~calls[i].res[1].ok
          /\ toasts' = <<[title |-> "Error", description |-> calls[i].res[1].body.error]>>
          /\ Done(i)
    /\ UNCHANGED <<initialProjects, users, projects, modal, selected, form, issued, nextId,
                   serverVars>>

\* newProject built from what the operator typed, under the server's id
newProjectFromForm(raw) ==
    [id             |-> raw.id,
     name           |-> form.name,
     description    |-> form.description,
     assignedToId   |-> form.assignedToId,
     assignedToName |-> "",
     createdAt      |-> formatDate(raw.createdAt)]

\* const newProject: ProjectItem = {...} of onCreate
newProject(raw) ==
    [id             |-> raw.id,
     name           |-> raw.name,
     description    |-> raw.description,
     assignedToId   |-> OrElse(raw.assignedTo, "id", ""),
     assignedToName |-> OrElse(raw.assignedTo, "name", ""),
     createdAt      |-> formatDate(raw.createdAt)]

\* onCreate after a res.ok response
onCreateOk ==
    /\ \E i \in 1..Len(calls) :
          /\ calls[i].pc = "resolved"
          /\ calls[i].kind = "create"
          /\ calls[i].res[1].ok
          /\ projects' = Append(projects, newProject(calls[i].res[1].body))
          /\ Done(i)
    /\ modal' = Null
    /\ toasts' = <<[title |-> "Proyecto creado", description |-> ""]>>
    /\ UNCHANGED <<initialProjects, users, selected, form, issued, nextId, serverVars>>

\* users.find(u => u.id === id)?.name ?? Dash
UserName(id) ==
    LET hits == {j \in 1..Len(users) : users[j].id = id}
    IN  IF hits = {} THEN Dash
        ELSE users[CHOOSE j \in hits : \A k \in hits : j <= k].name

\* onUpdate's element that keeps the old display name of the assigned user
UpdatedStaleName(x, sel, f) ==
    IF x.id = sel.id
    THEN [x EXCEPT !.name = f.name,
                   !.description = f.description,
                   !.assignedToId = f.assignedToId]
    ELSE x

\* the element onUpdate maps x to, under the closure's selected and form
Updated(x, sel, f) ==
    IF x.id = sel.id
    THEN [x EXCEPT !.name = f.name,
                   !.description = f.description,
                   !.assignedToId = f.assignedToId,
                   !.assignedToName = UserName(f.assignedToId)]
    ELSE x

\* onUpdate after a res.ok response
onUpdateOk ==
    /\ \E i \in 1..Len(calls) :
          /\ calls[i].pc = "resolved"
          /\ calls[i].kind = "update"
          /\ calls[i].res[1].ok
          /\ projects' = [k \in 1..Len(projects) |->
                             Updated(projects[k], calls[i].selected[1], calls[i].form)]
          /\ Done(i)
    /\ modal' = Null
    /\ toasts' = <<[title |-> "Proyecto actualizado", description |-> ""]>>
    /\ UNCHANGED <<initialProjects, users, selected, form, issued, nextId, serverVars>>

\* a filter that keeps the selected record and drops the others
FilteredInverted(prev, sel) == SelectSeq(prev, LAMBDA x : x.id = sel.id)

\* prev.filter(x => x.id !== sel.id)
Filtered(prev, sel) == SelectSeq(prev, LAMBDA x : x.id # sel.id)

\* onDelete after a res.ok response
onDeleteOk ==
    /\ \E i \in 1..Len(calls) :
          /\ calls[i].pc = "resolved"
          /\ calls[i].kind = "delete"
          /\ calls[i].res[1].ok
          /\ projects' = Filtered(projects, calls[i].selected[1])
          /\ Done(i)
    /\ modal' = Null
    /\ toasts' = <<[title |-> "Proyecto eliminado", description |-> ""]>>
    /\ UNCHANGED <<initialProjects, users, selected, form, issued, nextId, serverVars>>

\* the server side as the page sees it: the page reaches it through fetch alone
ServerIdle ==
    /\ db = [users |-> LoadedUsers, profiles |-> {}, projects |-> {}, tasks |-> {},
             tags |-> {}, categories |-> {}, taskTags |-> {}, taskCategories |-> {}]
    /\ dbres = <<>>
    /\ ssr = <<>>

\* the page mounted with the loader's props
Init ==
    /\ \E rowSeq \in LoadedRowSeqs :
          initialProjects = InitialProjects(rowSeq, LoadedUsers)
    /\ users = UserList(<<UserAna, UserLuis>>, {})
    /\ projects = initialProjects
    /\ modal = Null
    /\ selected = <<>>
    /\ form = EmptyForm
    /\ calls = <<>>
    /\ issued = 0
    /\ toasts = <<>>
    /\ nextId = 1
    /\ ServerIdle

Next ==
    \/ OpenCreate
    \/ OpenEdit
    \/ OpenDelete
    \/ onClose
    \/ onChange
    \/ onCreateFetch
    \/ onUpdateFetch
    \/ onDeleteFetch
    \/ ServerCreated
    \/ ServerOk
    \/ ServerError
    \/ FetchRejects
    \/ NotOk
    \/ onCreateOk
    \/ onUpdateOk
    \/ onDeleteOk

Spec == Init /\ [][Next]_vars

----------------------------------------------------------------------------
(* The schema: referential actions on delete *)

\* Profile.user: onDelete: Cascade is missing, and the default of a required
\* relation applies
ProfileUserOnDeleteDefault == "Restrict"

\* Profile.user, @relation(..., onDelete: Cascade)
ProfileUserOnDelete == "Cascade"
\* Project.assignedTo, User?: an optional relation without onDelete is SetNull
ProjectAssignedToOnDelete == "SetNull"
\* Task.assignedTo, User?
TaskAssignedToOnDelete == "SetNull"
\* Task.project, Project?
TaskProjectOnDelete == "SetNull"
\* Tag.assignedTo, User: a required relation without onDelete is Restrict
TagAssignedToOnDelete == "Restrict"
\* Category.assignedTo, User
CategoryAssignedToOnDelete == "Restrict"

\* the foreign keys of the schema
Relations ==
    {[child |-> "profiles",   fk |-> "userId",       parent |-> "users",
      onDelete |-> ProfileUserOnDelete],
     [child |-> "projects",   fk |-> "assignedToId", parent |-> "users",
      onDelete |-> ProjectAssignedToOnDelete],
     [child |-> "tasks",      fk |-> "assignedToId", parent |-> "users",
      onDelete |-> TaskAssignedToOnDelete],
     [child |-> "tasks",      fk |-> "projectId",    parent |-> "projects",
      onDelete |-> TaskProjectOnDelete],
     [child |-> "tags",       fk |-> "assignedToId", parent |-> "users",
      onDelete |-> TagAssignedToOnDelete],
     [child |-> "categories", fk |-> "assignedToId", parent |-> "users",
      onDelete |-> CategoryAssignedToOnDelete]}

\* the models with an id column, and the implicit many-to-many tables of
\* Task.tags and Task.categories
Tables == {"users", "profiles", "projects", "tasks", "tags", "categories"}

Ids(rows) == {r.id : r \in rows}

\* the rows whose foreign key fk references id
Referencing(rows, fk, id) == {r \in rows : r[fk] = id}

\* the child rows after the referenced row id is deleted
AfterDelete(rows, fk, id, action) ==
    IF action = "Cascade" THEN rows \ Referencing(rows, fk, id)
    ELSE IF action = "SetNull"
         THEN {IF r[fk] = id THEN [r EXCEPT ![fk] = Null] ELSE r : r \in rows}
         ELSE rows

\* the database refuses to delete row id of table: a Restrict relation references it
Restricted(d, table, id) ==
    \E r \in Relations :
       /\ r.parent = table
       /\ r.onDelete = "Restrict"
       /\ Referencing(d[r.child], r.fk, id) # {}

\* table T after row id of table is deleted
TableAfter(d, T, table, id) ==
    LET own == IF T = table THEN {r \in d[T] : r.id # id} ELSE d[T]
        rs  == {r \in Relations : r.parent = table /\ r.child = T}
    IN  IF rs = {} THEN own
        ELSE LET r == CHOOSE r \in rs : TRUE IN AfterDelete(own, r.fk, id, r.onDelete)

\* the database after row id of table is deleted; the rows of the implicit
\* many-to-many tables go with either of their ends
Deleted(d, table, id) ==
    LET t == [T \in Tables |-> TableAfter(d, T, table, id)]
    IN  [users          |-> t["users"],
         profiles       |-> t["profiles"],
         projects       |-> t["projects"],
         tasks          |-> t["tasks"],
         tags           |-> t["tags"],
         categories     |-> t["categories"],
         taskTags       |-> {j \in d.taskTags :
                                j[1] \in Ids(t["tasks"]) /\ j[2] \in Ids(t["tags"])},
         taskCategories |-> {j \in d.taskCategories :
                                j[1] \in Ids(t["tasks"]) /\ j[2] \in Ids(t["categories"])}]

\* prisma.<model>.delete({ where: { id } }) on an existing row: the delete and its
\* referential actions commit together, or the foreign key error P2003 is thrown
\* and nothing changes
Delete(table, id) ==
    /\ id \in Ids(db[table])
    /\ IF Restricted(db, table, id)
       THEN /\ db' = db
            /\ dbres' = <<[table |-> table, id |-> id, outcome |-> "P2003"]>>
       ELSE /\ db' = Deleted(db, table, id)
            /\ dbres' = <<[table |-> table, id |-> id, outcome |-> "deleted"]>>
    /\ UNCHANGED <<pageVars, ssr>>

DeleteUser     == \E id \in Ids(db.users)      : Delete("users", id)
DeleteProfile  == \E id \in Ids(db.profiles)   : Delete("profiles", id)
DeleteProject  == \E id \in Ids(db.projects)   : Delete("projects", id)
DeleteTask     == \E id \in Ids(db.tasks)      : Delete("tasks", id)
DeleteTag      == \E id \in Ids(db.tags)       : Delete("tags", id)
DeleteCategory == \E id \in Ids(db.categories) : Delete("categories", id)

\* the page before it is mounted
PageIdle ==
    /\ initialProjects = <<>>
    /\ users = <<>>
    /\ projects = <<>>
    /\ modal = Null
    /\ selected = <<>>
    /\ form = EmptyForm
    /\ calls = <<>>
    /\ issued = 0
    /\ toasts = <<>>
    /\ nextId = 1

ProfileAna  == [id |-> "f1", bio |-> Null, avatarUrl |-> "a.png", userId |-> "u1"]
ProfileLuis == [id |-> "f2", bio |-> "b",  avatarUrl |-> Null,    userId |-> "u2"]

\* the databases the runs start from: both users, any of their profiles, the two
\* projects, a task, and at most one tag and one category, assigned in every way
Databases ==
    {[users          |-> LoadedUsers,
      profiles       |-> fs,
      projects       |-> {[ProjectRow1 EXCEPT !.assignedToId = a1], ProjectRow2},
      tasks          |-> {[id |-> "t1", title |-> "T", assignedToId |-> a2, projectId |-> pj]},
      tags           |-> gs,
      categories     |-> cs,
      taskTags       |-> {<<"t1", g.id>> : g \in gs},
      taskCategories |-> {<<"t1", c.id>> : c \in cs}] :
        fs \in SUBSET {ProfileAna, ProfileLuis},
        a1 \in {Null, "u1", "u2"},
        a2 \in {Null, "u2"},
        pj \in {Null, "p1"},
        gs \in {{}, {[id |-> "g1", name |-> "Urgent", assignedToId |-> "u1"]}},
        cs \in {{}, {[id |-> "c1", name |-> "Home", assignedToId |-> "u2"]}}}

InitDb ==
    /\ db \in Databases
    /\ dbres = <<>>
    /\ ssr = <<>>
    /\ PageIdle

NextDb ==
    \/ DeleteUser
    \/ DeleteProfile
    \/ DeleteProject
    \/ DeleteTask
    \/ DeleteTag
    \/ DeleteCategory

SpecDb == InitDb /\ [][NextDb]_vars

----------------------------------------------------------------------------
(* The page's data loader *)

\* the roles getServerSideProps is registered for, with Colaborator let in as well
AllowedRolesEveryone == {"Administrator", "Project_Manager", "Colaborator"}

\* the second argument of withAuth in getServerSideProps
AllowedRoles == {"Administrator", "Project_Manager"}

\* withAuth(handler, roles) for a caller of the given role: the handler's result
\* when the role is one of roles, a denial before the handler runs otherwise
withAuth(handlerResult, roles, role) ==
    IF role \in roles THEN handlerResult ELSE [kind |-> "forbidden"]

\* the handler passed to withAuth: the props built from findMany of projects
\* (with assignedTo) and of users (with profile), each in the order the database
\* returns the rows in
Handler(rowSeq, userSeq) ==
    [kind            |-> "props",
     initialProjects |-> InitialProjects(rowSeq, db.users),
     users           |-> UserList(userSeq, db.profiles)]

getServerSideProps ==
    /\ \E role \in Roles :
       \E rowSeq \in Orderings(db.projects) :
       \E userSeq \in Orderings(db.users) :
          ssr' = <<[role |-> role,
                    result |-> withAuth(Handler(rowSeq, userSeq), AllowedRoles, role)]>>
    /\ UNCHANGED <<pageVars, db, dbres>>

SpecLoader == InitDb /\ [][getServerSideProps]_vars

----------------------------------------------------------------------------
(* Properties of ProjectsPage, under Spec *)

\* invocation i resumes from its fetch with a response and returns in this step
Resumes(i) ==
    /\ i \in 1..Len(calls)
    /\ calls[i].pc = "resolved"
    /\ calls' = Without(calls, i)

\* ... with a res.ok response to a request of the given kind
ResumesOk(i, kind) ==
    /\ Resumes(i)
    /\ calls[i].kind = kind
    /\ calls[i].res[1].ok

TitleIs(t) == toasts # <<>> /\ toasts[1].title = t

\* C1: the local collection changes only in a step in which a handler resumes with
\* a res.ok response; issuing a request, a pending request, a request that does
\* not complete and a non-2xx response leave its count, order and content alone.
C1_ChangesOnlyOnOk ==
    [][projects' # projects =>
         \E i \in 1..Len(calls) : Resumes(i) /\ calls[i].res[1].ok]_vars

\* C1 witness: a non-2xx response has been handled and the collection is the loaded one
C1_Witness ==
    /\ TitleIs("Error")
    /\ calls = <<>>
    /\ issued = MaxCalls
    /\ projects = initialProjects
    /\ Len(projects) = 2

\* C2: when onCreate resumes with a res.ok response, the collection becomes the
\* collection of that moment with one record appended at the end, whose id, name,
\* description and assignee are those of the response body.
C2_CreateAppendsServerRecord ==
    [][\A i \in 1..Len(calls) : ResumesOk(i, "create") =>
         LET raw == calls[i].res[1].body
             n   == Len(projects)
         IN  /\ Len(projects') = n + 1
             /\ \A k \in 1..n : projects'[k] = projects[k]
             /\ projects'[n + 1].id = raw.id
             /\ projects'[n + 1].name = raw.name
             /\ projects'[n + 1].description = raw.description
             /\ IF raw.assignedTo = <<>>
                THEN projects'[n + 1].assignedToId = ""
                ELSE /\ projects'[n + 1].assignedToId = raw.assignedTo[1].id
                     /\ projects'[n + 1].assignedToName = raw.assignedTo[1].name]_vars

\* C2 witness: a created record stands at the end of a collection of three, and it
\* is not what the form holds
C2_Witness ==
    /\ TitleIs("Proyecto creado")
    /\ Len(projects) = 3
    /\ projects[3].id = GeneratedId(1)
    /\ projects[3].name # form.name
    /\ projects[3].assignedToId # form.assignedToId

\* C3: when onUpdate resumes with a res.ok response, the collection keeps its length
\* and order; the record with the selected id gets the submitted name, description
\* and assignedToId, and the name of the user with that id in users (the
\* placeholder when there is none); its id and createdAt, and every other record,
\* are unchanged.
C3_UpdateReplacesFields ==
    [][\A i \in 1..Len(calls) : ResumesOk(i, "update") =>
         LET sel == calls[i].selected[1]
             f   == calls[i].form
         IN  /\ Len(projects') = Len(projects)
             /\ \A k \in 1..Len(projects) :
                   IF projects[k].id = sel.id
                   THEN /\ projects'[k].name = f.name
                        /\ projects'[k].description = f.description
                        /\ projects'[k].assignedToId = f.assignedToId
                        /\ \/ \E j \in 1..Len(users) :
                                 /\ users[j].id = f.assignedToId
                                 /\ projects'[k].assignedToName = users[j].name
                           \/ /\ \A j \in 1..Len(users) : users[j].id # f.assignedToId
                              /\ projects'[k].assignedToName = Dash
                        /\ projects'[k].id = projects[k].id
                        /\ projects'[k].createdAt = projects[k].createdAt
                   ELSE projects'[k] = projects[k]]_vars

\* C3 witness: an update has replaced the fields of the first loaded record, whose
\* assignee was nobody, and left the second record as loaded
C3_Witness ==
    /\ TitleIs("Proyecto actualizado")
    /\ Len(projects) = 2
    /\ Len(initialProjects) = 2
    /\ initialProjects[1].assignedToName = Dash
    /\ projects[1].id = initialProjects[1].id
    /\ projects[1].name = "C"
    /\ projects[1].assignedToName = "Luis"
    /\ projects[2] = initialProjects[2]

\* C4: when onDelete resumes with a res.ok response, the collection becomes the
\* collection of that moment without the record with the selected id: one record
\* fewer when it is present, the others with their content and relative order.
C4_DeleteRemovesSelected ==
    [][\A i \in 1..Len(calls) : ResumesOk(i, "delete") =>
         LET sel  == calls[i].selected[1]
             keep == {k \in 1..Len(projects) : projects[k].id # sel.id}
         IN  /\ Len(projects') = Cardinality(keep)
             /\ \A k \in keep :
                   projects'[Cardinality({j \in keep : j <= k})] = projects[k]
             /\ (\E k \in 1..Len(projects) : projects[k].id = sel.id)
                   => Len(projects') = Len(projects) - 1]_vars

\* C4 witness: a delete has removed the first of three records
C4_Witness ==
    /\ TitleIs("Proyecto eliminado")
    /\ issued = 2
    /\ Len(initialProjects) = 2
    /\ Len(projects) = 2
    /\ projects[1] = initialProjects[2]
    /\ projects[2].id = GeneratedId(1)

\* C7 as claimed: once an edit or delete modal has been closed, through onClose or
\* by a successful operation, selected is null.
C7_SelectionClearedOnDismiss ==
    [][(modal \in {"edit", "delete"} /\ modal' = Null) => selected' = <<>>]_vars

\* C7 as the code has it: a step that closes a modal leaves selected as it was, and
\* a selection is cleared only by the step that opens the create modal.
C7_DismissKeepsSelection ==
    [][/\ (modal # Null /\ modal' = Null) => selected' = selected
       /\ (selected # <<>> /\ selected' = <<>>) => modal' = "create"]_vars

\* C7 witness: an edit or delete modal was opened and closed, and no modal is open
C7_Witness ==
    /\ modal = Null
    /\ selected # <<>>

\* C8: a step that opens the edit or delete modal for a row p of the table sets
\* selected to p and the form to p's name, description (empty for null) and
\* assignedToId; a step that opens the create modal sets selected to null and
\* empties the form.
C8_OpenersResetSelectionAndForm ==
    [][/\ (OpenEdit \/ OpenDelete) =>
             \E k \in 1..Len(projects) :
                /\ selected' = <<projects[k]>>
                /\ form'.name = projects[k].name
                /\ form'.description =
                      (IF projects[k].description = Null THEN "" ELSE projects[k].description)
                /\ form'.assignedToId = projects[k].assignedToId
       /\ OpenCreate =>
             /\ selected' = <<>>
             /\ form' = [name |-> "", description |-> "", assignedToId |-> ""]]_vars

\* C8 witness: the edit modal is open for a record with a null description, after
\* an earlier modal was used
C8_Witness ==
    /\ modal = "edit"
    /\ issued > 0
    /\ selected # <<>>
    /\ selected[1].description = Null
    /\ form = [name |-> selected[1].name, description |-> "",
               assignedToId |-> selected[1].assignedToId]

\* the modal a request of this kind is issued from
ModalOf(kind) == IF kind = "create" THEN "create" ELSE IF kind = "update" THEN "edit" ELSE "delete"

\* C9 as claimed: a handler that resumes with a response closes only the modal its
\* request was issued from; a modal open for another operation or another record
\* is still open afterwards.
C9_ResponseClosesOnlyItsModal ==
    [][\A i \in 1..Len(calls) :
          (/\ Resumes(i)
           /\ modal # Null
           /\ (modal # ModalOf(calls[i].kind) \/ selected # calls[i].selected))
          => modal' = modal]_vars

\* C10 as claimed: every record of the collection with nobody assigned shows the
\* placeholder as the assigned user's name.
C10_UnassignedShowsPlaceholder ==
    \A k \in 1..Len(projects) :
       projects[k].assignedToId = "" => projects[k].assignedToName = Dash

----------------------------------------------------------------------------
(* Properties of the loader, under SpecLoader *)

\* C5: the loader produces a project listing only for a caller whose role is
\* Administrator or Project_Manager; a Colaborator gets none.
C5_ListingOnlyForManagers ==
    ssr # <<>> =>
       /\ ssr[1].result.kind = "props"
             => ssr[1].role \in {"Administrator", "Project_Manager"}
       /\ ssr[1].role = "Colaborator" => ssr[1].result.kind # "props"

\* C5 witness: a Project_Manager was given the listing of both projects, and
\* nobody is shown for the unassigned one
C5_Witness ==
    /\ ssr # <<>>
    /\ ssr[1].role = "Project_Manager"
    /\ ssr[1].result.kind = "props"
    /\ Len(ssr[1].result.initialProjects) = 2
    /\ \E k \in 1..2 : ssr[1].result.initialProjects[k].assignedToName = Dash

----------------------------------------------------------------------------
(* Properties of the schema, under SpecDb *)

\* a step that asks the database to delete the User u
DeleteUserStep(u) ==
    /\ u \in Ids(db.users)
    /\ dbres' # <<>>
    /\ dbres'[1].table = "users"
    /\ dbres'[1].id = u
    /\ (dbres' # dbres \/ db' # db)

\* the database after the step is the one before it without the User u and
\* without u's Profile, with u's Projects and Tasks kept and unassigned, and with
\* everything else as it was
OnlyUserAndProfileGone(u) ==
    /\ db'.users = {r \in db.users : r.id # u}
    /\ db'.profiles = {r \in db.profiles : r.userId # u}
    /\ Ids(db'.projects) = Ids(db.projects)
    /\ \A p \in db.projects : \E q \in db'.projects :
          /\ q.id = p.id
          /\ q.name = p.name
          /\ q.assignedToId = (IF p.assignedToId = u THEN Null ELSE p.assignedToId)
    /\ Ids(db'.tasks) = Ids(db.tasks)
    /\ \A t \in db.tasks : \E q \in db'.tasks :
          /\ q.id = t.id
          /\ q.projectId = t.projectId
          /\ q.assignedToId = (IF t.assignedToId = u THEN Null ELSE t.assignedToId)
    /\ db'.tags = db.tags
    /\ db'.categories = db.categories
    /\ db'.taskTags = db.taskTags
    /\ db'.taskCategories = db.taskCategories

OwnsTagOrCategory(u) ==
    \/ \E g \in db.tags : g.assignedToId = u
    \/ \E c \in db.categories : c.assignedToId = u

\* C6 as claimed: deleting any User, one that owns Tags or Categories included,
\* deletes that User and exactly that User's Profile, and leaves the Projects and
\* Tasks that were assigned to the User in place and unassigned.
C6_DeleteUserCascadesToProfileOnly ==
    [][\A u \in Ids(db.users) : DeleteUserStep(u) => OnlyUserAndProfileGone(u)]_vars

\* C6 as the schema has it: deleting a User that owns no Tag and no Category does
\* the above; deleting a User that owns a Tag or a Category is refused and changes
\* nothing.
C6_DeleteUserUnlessOwner ==
    [][\A u \in Ids(db.users) : DeleteUserStep(u) =>
          IF OwnsTagOrCategory(u)
          THEN db' = db /\ dbres'[1].outcome = "P2003"
          ELSE OnlyUserAndProfileGone(u) /\ dbres'[1].outcome = "deleted"]_vars

\* C6 witness: the User u2 has been deleted; its Profile is gone, the Profile of u1
\* is there, and the Project and the Task that may have been assigned to u2 are
\* there with nobody assigned
C6_Witness ==
    /\ dbres = <<[table |-> "users", id |-> "u2", outcome |-> "deleted"]>>
    /\ Ids(db.users) = {"u1"}
    /\ db.profiles = {ProfileAna}
    /\ \E p \in db.projects : p.id = "p1" /\ p.assignedToId = Null
    /\ \E t \in db.tasks : t.assignedToId = Null
    /\ db.tags # {}

====
